---- MODULE Spec2Model ----
(***************************************************************************)
(* Model of src/app.py (Emotionix): the persisted store (User, Chat,       *)
(* Message), the signup / new_chat / api_chat handlers, the context        *)
(* assembly inside api_chat and the two response generators.               *)
(*                                                                         *)
(* Text is a sequence of tokens: a literal fragment of an f-string is one  *)
(* token, a character of a prompt is one token, so concatenation is \o     *)
(* and str.strip() really strips.  A Python / JSON value is a tagged       *)
(* record: None (JSON null), Str(s), or Absent (key not in the body).      *)
(* Message.created_at order is the order of insertion.                     *)
(***************************************************************************)
EXTENDS Integers, Sequences, FiniteSets, TLC

\* ---------------------------------------------------------------- bounds
MaxMsgs == 3
MaxHist == 3

\* ------------------------------------------------------ program constants
SummaryLen == 500

\* ------------------------------------------------------- Python values
None == [t |-> "none", v |-> <<>>]
Absent == [t |-> "absent", v |-> <<>>]
Raised == [t |-> "raised", v |-> <<>>]
Str(s) == [t |-> "str", v |-> s]

\* bool(x) of a str-or-None value
Truthy(x) == x.t = "str" /\ x.v # <<>>

\* x or d
Or(x, d) == IF Truthy(x) THEN x ELSE d

\* dict.get(key, default): JSON null comes back as None
Get(x, default) == IF x = Absent THEN default ELSE x

\* "{x}" inside an f-string
Fmt(x) == IF x.t = "str" THEN x.v ELSE <<"None">>

IsSpace(c) == c = " "

RECURSIVE LStrip(_)
LStrip(s) == IF s # <<>> /\ IsSpace(Head(s)) THEN LStrip(Tail(s)) ELSE s

RECURSIVE RStrip(_)
RStrip(s) ==
  IF s # <<>> /\ IsSpace(s[Len(s)]) THEN RStrip(SubSeq(s, 1, Len(s) - 1)) ELSE s

\* str.strip()
Strip(s) == RStrip(LStrip(s))

\* s[:n]
Take(s, n) == SubSeq(s, 1, IF Len(s) < n THEN Len(s) ELSE n)

\* ------------------------------------------------------------ input sets
Procs == {1, 2}
UUIDs == {<<"c1">>, <<"c2">>}
Usernames == {<<>>, <<"u">>, <<" ", "u">>, <<"v">>}
Passwords == {<<>>, <<"p">>}
NewChatModes == {Absent}
\* a body with no key at all
NoBody ==
  [chat_id |-> Absent, prompt |-> Absent, emotion |-> Absent, ai_mode |-> Absent,
   board |-> Absent, grade |-> Absent]
ChatIdInputs == {Absent, Str(<<>>)} \cup {Str(c) : c \in UUIDs}
PromptInputs == {Absent, None, Str(<<" ">>), Str(<<" ", "a">>), Str(<<"b">>)}
EmotionInputs == {Absent, Str(<<"sad">>), Str(<<"angry">>), Str(<<"happy">>)}
ModeInputs == {Absent, Str(<<"alphaStudy">>), Str(<<"alphaExam">>)}
BoardInputs == {Absent, Str(<<"CBSE">>)}
GradeInputs == {Absent, Str(<<"10">>)}
\* JSON bodies posted to /api/chat
Bodies ==
  [chat_id : ChatIdInputs, prompt : PromptInputs, emotion : EmotionInputs,
   ai_mode : ModeInputs, board : BoardInputs, grade : GradeInputs]
\* the bodies posted while the handlers interleave
LiveProfiles ==
  {[NoBody EXCEPT !.emotion = Str(<<"sad">>)],
   [NoBody EXCEPT !.ai_mode = Str(<<"alphaStudy">>), !.board = Str(<<"CBSE">>)]}
LiveBodies ==
  {[b EXCEPT !.chat_id = Str(c), !.prompt = Str(<<" ", "a">>)] :
     b \in LiveProfiles, c \in UUIDs}
  \cup {[NoBody EXCEPT !.chat_id = c, !.prompt = Str(<<" ", "a">>)] :
          c \in {Absent, Str(<<>>)}}
  \cup {[NoBody EXCEPT !.chat_id = Str(<<"c1">>), !.prompt = q] :
          q \in {Absent, None, Str(<<" ">>)}}
HistContents == {<<"x">>, <<"y">>}
Roles == {"system", "user", "assistant"}
\* bodies that pass the validation of api_chat
ValidBodies ==
  {d \in Bodies : d.chat_id \in {Str(c) : c \in UUIDs}
                  /\ d.prompt \in {Str(<<" ", "a">>), Str(<<"b">>)}}
AsmBodies == {d \in ValidBodies : d.chat_id = Str(<<"c1">>)}
RemoteOutcomes ==
  {[kind |-> "raise", content |-> <<>>],
   [kind |-> "malformed", content |-> <<>>],
   [kind |-> "ok", content |-> <<" ">>],
   [kind |-> "ok", content |-> <<" ", "r">>]}
Keys == {None, Str(<<"sk">>)}

\* ------------------------------------------------------------------ state
VARIABLES
  OPENAI_KEY,        \* os.getenv("OPENAI_API_KEY")
  users,             \* User table, id = index
  chats,             \* Chat table
  messages,          \* Message table in created_at order
  author,            \* ghost: user id whose request persisted messages[i]
  pending_chats,     \* new_chat handlers between their two commits
  pc,                \* position of each api_chat request thread
  current_user,      \* its authenticated user
  req,               \* its locals chat_id, prompt, emotion, ai_mode, board, grade
  before,            \* ghost: messages of the chat persisted before the request
  prior,             \* its local prior
  messages_for_api,  \* its local messages_for_api
  ai_response_text,  \* its local ai_response_text
  remote_called,     \* ghost: openai.ChatCompletion.create was invoked
  resp,              \* the HTTP response sent last
  asm_hist,          \* assembly on its own: a persisted history,
  asm_body,          \*   a request body,
  asm_out,           \*   and the assembled sequence (<<>> before assembly)
  gen_body,          \* generation on its own: two request bodies
  gen_out            \*   and the text generated for each (None before)

storeVars == <<users, chats, messages, author, pending_chats>>
procVars ==
  <<pc, current_user, req, before, prior, messages_for_api, ai_response_text,
    remote_called, resp>>
asmVars == <<asm_hist, asm_body, asm_out>>
genVars == <<gen_body, gen_out>>
vars == <<OPENAI_KEY, storeVars, procVars, asmVars, genVars>>

NoReq ==
  [chat_id |-> None, prompt |-> Str(<<>>), emotion |-> None, ai_mode |-> None,
   board |-> None, grade |-> None]
NoResp ==
  [status |-> 0, key |-> "", text |-> <<>>, chat_id |-> None, prompt |-> Str(<<>>)]
\* a response; an error response goes with the chat_id and prompt it rejects
Response(status, key, text, chat_id, prompt) ==
  [status |-> status, key |-> key, text |-> text, chat_id |-> chat_id,
   prompt |-> prompt]

\* ------------------------------------------------------- pure functions
fallback_generate(prompt, ai_mode, board, grade) ==
  LET p == Strip(prompt)
  IN  IF ai_mode = Str(<<"alphaStudy">>)
      THEN <<"(Alpha Study AI for ">> \o Fmt(Or(board, Str(<<"Generic Board">>)))
           \o <<", grade ">> \o Fmt(Or(grade, Str(<<"N/A">>))) \o <<") ">>
           \o <<"\nSummary: ">> \o Take(p, SummaryLen)
           \o <<".\nExplanation: Break it into simple steps and give an example.">>
      ELSE IF ai_mode = Str(<<"alphaExam">>)
      THEN <<"Exam on: ">> \o p
           \o <<"\n1) Define the topic.\n2) Short question.\n3) Long question.">>
      ELSE <<"I understand: ">> \o p
           \o <<"\nHere's an empathetic answer: try reframing, examples, and a short action step.">>

\* whether openai_chat gets as far as the remote call
RemoteAttempted(key) == Truthy(key)

\* the except clause is missing: the error of the remote call leaves openai_chat
openai_chat_uncaught(key, outcome) ==
  IF ~RemoteAttempted(key) THEN None
  ELSE IF outcome.kind = "ok" THEN Str(Strip(outcome.content))
  ELSE IF outcome.kind = "raise" THEN Raised
  ELSE None

\* outcome is what the remote call does: raise, answer with a body that has
\* no choices[0].message.content, or answer with a content
openai_chat(key, outcome) ==
  IF ~RemoteAttempted(key) THEN None
  ELSE IF outcome.kind = "ok" THEN Str(Strip(outcome.content))
  ELSE None

system_text(ai_mode, emotion, board, grade) ==
  LET base == <<"You are ">> \o Fmt(ai_mode)
              \o <<". Be helpful and adapt tone to user's emotion: ">>
              \o Fmt(Or(emotion, Str(<<"neutral">>))) \o <<".">>
  IN  IF ai_mode = Str(<<"alphaStudy">>)
      THEN base \o <<" Student board: ">> \o Fmt(Or(board, Str(<<"any">>)))
           \o <<". Grade: ">> \o Fmt(Or(grade, Str(<<"any">>))) \o <<".">>
      ELSE base

HasSystem(ms) == \E i \in 1..Len(ms) : ms[i].role = "system"
FirstSystem(ms) ==
  CHOOSE i \in 1..Len(ms) :
    ms[i].role = "system" /\ \A j \in 1..(i - 1) : ms[j].role # "system"

\* the new system entry is appended, not inserted at the front
AssembleMessages_append(hist, text, prompt) ==
  LET m0 == [i \in 1..Len(hist) |->
               [role |-> hist[i].role, content |-> hist[i].content]]
      m1 == IF ~HasSystem(m0)
            THEN Append(m0, [role |-> "system", content |-> text])
            ELSE [m0 EXCEPT ![FirstSystem(m0)].content = text]
  IN  Append(m1, [role |-> "user", content |-> prompt])

\* the update loop has no break: every system entry is rewritten
AssembleMessages_nobreak(hist, text, prompt) ==
  LET m0 == [i \in 1..Len(hist) |->
               [role |-> hist[i].role, content |-> hist[i].content]]
      m1 == IF ~HasSystem(m0)
            THEN <<[role |-> "system", content |-> text]>> \o m0
            ELSE [i \in 1..Len(m0) |->
                    IF m0[i].role = "system" THEN [m0[i] EXCEPT !.content = text]
                    ELSE m0[i]]
  IN  Append(m1, [role |-> "user", content |-> prompt])

\* the prompt is not appended a second time
AssembleMessages_once(hist, text, prompt) ==
  LET m0 == [i \in 1..Len(hist) |->
               [role |-> hist[i].role, content |-> hist[i].content]]
  IN  IF ~HasSystem(m0)
      THEN <<[role |-> "system", content |-> text]>> \o m0
      ELSE [m0 EXCEPT ![FirstSystem(m0)].content = text]

\* lines 181-194: the sequence handed to the generator
AssembleMessages(hist, text, prompt) ==
  LET m0 == [i \in 1..Len(hist) |->
               [role |-> hist[i].role, content |-> hist[i].content]]
      m1 == IF ~HasSystem(m0)
            THEN <<[role |-> "system", content |-> text]>> \o m0
            ELSE [m0 EXCEPT ![FirstSystem(m0)].content = text]
  IN  Append(m1, [role |-> "user", content |-> prompt])

\* Message.query.filter_by(chat_id=...).order_by(created_at).all()
MessagesOf(cid) == SelectSeq(messages, LAMBDA m : m.chat_id = cid)

\* lines 159-164, for a body whose prompt is a string or absent
ParseBody(data) ==
  [chat_id |-> Get(data.chat_id, None),
   prompt |-> Str(Strip(Get(data.prompt, Str(<<>>)).v)),
   emotion |-> Get(data.emotion, None),
   ai_mode |-> Get(data.ai_mode, Str(<<"emotionix">>)),
   board |-> Get(data.board, None),
   grade |-> Get(data.grade, None)]

\* only the chat id is validated
Invalid_chat_only(r) == ~Truthy(r.chat_id)

\* line 166
Invalid(r) == ~Truthy(r.chat_id) \/ ~Truthy(r.prompt)

\* lines 175-194 on a fetched history
AssembleRequest(hist, r) ==
  AssembleMessages(hist, system_text(r.ai_mode, r.emotion, r.board, r.grade),
                   r.prompt.v)

\* the emotion is passed where the board belongs
GenerateResponse_emotion(key, outcome, r) ==
  LET remote == IF Truthy(key) THEN openai_chat(key, outcome) ELSE None
  IN  IF remote = Raised THEN Raised
      ELSE IF Truthy(remote) THEN remote
      ELSE Str(fallback_generate(r.prompt.v, r.ai_mode, r.emotion, r.grade))

\* lines 197-199
GenerateResponse(key, outcome, r) ==
  LET remote == IF Truthy(key) THEN openai_chat(key, outcome) ELSE None
  IN  IF remote = Raised THEN Raised
      ELSE IF Truthy(remote) THEN remote
      ELSE Str(fallback_generate(r.prompt.v, r.ai_mode, r.board, r.grade))

\* ---------------------------------------------------------------- Init
InitStore ==
  /\ users = <<>>
  /\ chats = {}
  /\ messages = <<>>
  /\ author = <<>>
  /\ pending_chats = {}

InitProcs ==
  /\ pc = [p \in Procs |-> "idle"]
  /\ current_user = [p \in Procs |-> 0]
  /\ req = [p \in Procs |-> NoReq]
  /\ before = [p \in Procs |-> 0]
  /\ prior = [p \in Procs |-> <<>>]
  /\ messages_for_api = [p \in Procs |-> <<>>]
  /\ ai_response_text = [p \in Procs |-> None]
  /\ remote_called = [p \in Procs |-> FALSE]
  /\ resp = NoResp

InitAsm == asm_hist = <<>> /\ asm_body = NoBody /\ asm_out = <<>>
InitGen == gen_body = <<NoBody, NoBody>> /\ gen_out = <<None, None>>

Init ==
  /\ OPENAI_KEY \in Keys
  /\ InitStore
  /\ InitProcs
  /\ InitAsm
  /\ InitGen

\* messages still to be written by the handlers in flight
Reserved == Cardinality({p \in Procs : pc[p] # "idle"}) + Cardinality(pending_chats)

\* ------------------------------------------------------------- signup
signup(username_in, password_in) ==
  LET username == Strip(username_in)
      password == Strip(password_in)
  IN  /\ username # <<>> /\ password # <<>>
      /\ \A i \in 1..Len(users) : users[i].username # username
      /\ users' = Append(users, [username |-> username])
      /\ UNCHANGED <<OPENAI_KEY, chats, messages, author, pending_chats>>
      /\ UNCHANGED <<procVars, asmVars, genVars>>

\* ------------------------------------------------------------ new_chat
\* the chat id is not checked against the Chat rows
new_chat_commit_chat_any(u, mode_in, chat_id) ==
  LET ai_mode == Get(mode_in, Str(<<"emotionix">>))
  IN  /\ u \in 1..Len(users)
      /\ Len(messages) + Reserved + 1 <= MaxMsgs
      /\ chats' = chats \cup {[id |-> chat_id, user_id |-> u, ai_mode |-> ai_mode]}
      /\ pending_chats' = pending_chats \cup
           {[chat_id |-> chat_id, ai_mode |-> ai_mode, user |-> u]}
      /\ UNCHANGED <<OPENAI_KEY, users, messages, author>>
      /\ UNCHANGED <<procVars, asmVars, genVars>>

\* lines 134-139: the Chat row is committed
new_chat_commit_chat(u, mode_in, chat_id) ==
  LET ai_mode == Get(mode_in, Str(<<"emotionix">>))
  IN  /\ u \in 1..Len(users)
      /\ \A c \in chats : c.id # chat_id
      /\ Len(messages) + Reserved + 1 <= MaxMsgs
      /\ chats' = chats \cup {[id |-> chat_id, user_id |-> u, ai_mode |-> ai_mode]}
      /\ pending_chats' = pending_chats \cup
           {[chat_id |-> chat_id, ai_mode |-> ai_mode, user |-> u]}
      /\ UNCHANGED <<OPENAI_KEY, users, messages, author>>
      /\ UNCHANGED <<procVars, asmVars, genVars>>

\* lines 141-144: the system Message is committed
new_chat_commit_system(n) ==
  /\ n \in pending_chats
  /\ messages' = Append(messages,
       [chat_id |-> n.chat_id, role |-> "system",
        content |-> <<"AI mode:">> \o Fmt(n.ai_mode)])
  /\ author' = Append(author, n.user)
  /\ pending_chats' = pending_chats \ {n}
  /\ UNCHANGED <<OPENAI_KEY, users, chats>>
  /\ UNCHANGED <<procVars, asmVars, genVars>>

\* ------------------------------------------------------------ api_chat
\* the request is over: its locals are gone, the response stays
Finish(p, response) ==
  /\ resp' = response
  /\ pc' = [pc EXCEPT ![p] = "idle"]
  /\ req' = [req EXCEPT ![p] = NoReq]
  /\ current_user' = [current_user EXCEPT ![p] = 0]
  /\ before' = [before EXCEPT ![p] = 0]
  /\ prior' = [prior EXCEPT ![p] = <<>>]
  /\ messages_for_api' = [messages_for_api EXCEPT ![p] = <<>>]
  /\ ai_response_text' = [ai_response_text EXCEPT ![p] = None]
  /\ remote_called' = [remote_called EXCEPT ![p] = FALSE]

\* lines 158-172
api_chat_begin(p, u, data) ==
  /\ pc[p] = "idle"
  /\ u \in 1..Len(users)
  /\ UNCHANGED <<OPENAI_KEY, users, chats, pending_chats, asmVars, genVars>>
  /\ IF Get(data.prompt, Str(<<>>)) = None
     THEN \* None.strip() raises AttributeError
          /\ Finish(p, Response(500, "", <<>>, Get(data.chat_id, None), None))
          /\ UNCHANGED <<messages, author>>
     ELSE LET r == ParseBody(data)
          IN  IF Invalid(r)
              THEN /\ Finish(p, Response(400, "error", <<"missing chat_id or prompt">>,
                                          r.chat_id, r.prompt))
                   /\ UNCHANGED <<messages, author>>
              ELSE /\ Len(messages) + Reserved + 2 <= MaxMsgs
                   /\ messages' = Append(messages,
                         [chat_id |-> r.chat_id.v, role |-> "user",
                          content |-> r.prompt.v])
                   /\ author' = Append(author, u)
                   /\ req' = [req EXCEPT ![p] = r]
                   /\ current_user' = [current_user EXCEPT ![p] = u]
                   /\ before' = [before EXCEPT ![p] = Len(MessagesOf(r.chat_id.v))]
                   /\ UNCHANGED resp
                   /\ pc' = [pc EXCEPT ![p] = "assemble"]
                   /\ UNCHANGED <<prior, messages_for_api, ai_response_text,
                                  remote_called>>

\* lines 175-194
api_chat_assemble(p) ==
  /\ pc[p] = "assemble"
  /\ LET hist == MessagesOf(req[p].chat_id.v)
     IN  /\ prior' = [prior EXCEPT ![p] = hist]
         /\ messages_for_api' = [messages_for_api EXCEPT ![p] =
              AssembleRequest(hist, req[p])]
  /\ pc' = [pc EXCEPT ![p] = "generate"]
  /\ UNCHANGED <<OPENAI_KEY, current_user, req, before, ai_response_text,
                 remote_called, resp>>
  /\ UNCHANGED <<storeVars, asmVars, genVars>>

\* lines 197-199
api_chat_generate(p, outcome) ==
  /\ pc[p] = "generate"
  /\ LET text == GenerateResponse(OPENAI_KEY, outcome, req[p])
     IN  IF text = Raised
         THEN \* an exception that leaves the generator ends the request
              Finish(p, Response(500, "", <<>>, req[p].chat_id, req[p].prompt))
         ELSE /\ ai_response_text' = [ai_response_text EXCEPT ![p] = text]
              /\ remote_called' = [remote_called EXCEPT ![p] =
                   RemoteAttempted(OPENAI_KEY)]
              /\ pc' = [pc EXCEPT ![p] = "save"]
              /\ UNCHANGED <<resp, prior, messages_for_api, current_user,
                             before, req>>
  /\ UNCHANGED <<OPENAI_KEY, storeVars, asmVars, genVars>>

\* lines 202-206
api_chat_save(p) ==
  /\ pc[p] = "save"
  /\ messages' = Append(messages,
       [chat_id |-> req[p].chat_id.v, role |-> "assistant",
        content |-> ai_response_text[p].v])
  /\ author' = Append(author, current_user[p])
  /\ Finish(p, Response(200, "answer", ai_response_text[p].v, None, Str(<<>>)))
  /\ UNCHANGED <<OPENAI_KEY, users, chats, pending_chats>>
  /\ UNCHANGED <<asmVars, genVars>>

Next ==
  \/ \E n \in Usernames, w \in Passwords : signup(n, w)
  \/ \E u \in 1..Len(users), m \in NewChatModes, c \in UUIDs : new_chat_commit_chat(u, m, c)
  \/ \E n \in pending_chats : new_chat_commit_system(n)
  \/ \E p \in Procs, u \in 1..Len(users), d \in LiveBodies : api_chat_begin(p, u, d)
  \/ \E p \in Procs : api_chat_assemble(p)
  \/ \E p \in Procs, o \in RemoteOutcomes : api_chat_generate(p, o)
  \/ \E p \in Procs : api_chat_save(p)

Spec == Init /\ [][Next]_vars

\* ------------------------------------------- assembly on its own
RECURSIVE Histories(_)
Histories(n) ==
  IF n = 0 THEN {<<>>}
  ELSE LET shorter == Histories(n - 1)
       IN  shorter \cup
           {Append(h, [chat_id |-> <<"c1">>, role |-> r, content |-> c]) :
              h \in {g \in shorter : Len(g) = n - 1}, r \in Roles, c \in HistContents}

InitAssemble ==
  /\ OPENAI_KEY = None
  /\ InitStore
  /\ InitProcs
  /\ InitGen
  /\ asm_hist \in Histories(MaxHist)
  /\ asm_body \in AsmBodies
  /\ asm_out = <<>>

assemble ==
  /\ asm_out = <<>>
  /\ asm_out' = AssembleRequest(asm_hist, ParseBody(asm_body))
  /\ UNCHANGED <<OPENAI_KEY, storeVars, procVars, asm_hist, asm_body, genVars>>

NextAssemble == assemble

SpecAssemble == InitAssemble /\ [][NextAssemble]_vars

\* ----------------------------------------- generation on its own
InitGenerate ==
  /\ OPENAI_KEY \in Keys
  /\ InitStore
  /\ InitProcs
  /\ InitAsm
  /\ gen_body \in ValidBodies \X ValidBodies
  /\ gen_out = <<None, None>>

generate(i, outcome) ==
  /\ gen_out[i] = None
  /\ gen_out' = [gen_out EXCEPT ![i] =
       GenerateResponse(OPENAI_KEY, outcome, ParseBody(gen_body[i]))]
  /\ UNCHANGED <<OPENAI_KEY, storeVars, procVars, asmVars, gen_body>>

NextGenerate == \E i \in {1, 2}, o \in RemoteOutcomes : generate(i, o)

SpecGenerate == InitGenerate /\ [][NextGenerate]_vars

\* ================================================================ claims
CountRole(ms, role) == Cardinality({i \in 1..Len(ms) : ms[i].role = role})
Rows(cid) == {i \in 1..Len(messages) : messages[i].chat_id = cid}
SystemRows(cid) == {i \in Rows(cid) : messages[i].role = "system"}
IsApiStep(p) == pc'[p] # pc[p] \/ (pc[p] = "idle" /\ resp' # resp)

\* C1: the sequence api_chat hands to the generator has exactly one entry
\* with role system, and that entry is the first one.
C1_SystemEntryLeads ==
  \A p \in Procs :
    messages_for_api[p] # <<>> =>
      /\ messages_for_api[p][1].role = "system"
      /\ CountRole(messages_for_api[p], "system") = 1

\* the system text lines 175-177 are to build from the body asm_body
C2_expected ==
  LET d == asm_body
      opt(x, dflt) == IF x.t = "str" /\ x.v # <<>> THEN x.v ELSE dflt
      mode == IF d.ai_mode = Absent THEN <<"emotionix">> ELSE d.ai_mode.v
      base == <<"You are ">> \o mode
              \o <<". Be helpful and adapt tone to user's emotion: ">>
              \o opt(d.emotion, <<"neutral">>) \o <<".">>
  IN  IF mode = <<"alphaStudy">>
      THEN base \o <<" Student board: ">> \o opt(d.board, <<"any">>)
           \o <<". Grade: ">> \o opt(d.grade, <<"any">>) \o <<".">>
      ELSE base
\* C2: a history with no system entry is assembled into a sequence whose
\* only system entry is the first one and holds the system text of the
\* request: the mode, the emotion or neutral and, for alphaStudy, the board
\* and the grade or any.
C2_SystemInsertedFirst ==
  (asm_out # <<>> /\ \A i \in 1..Len(asm_hist) : asm_hist[i].role # "system") =>
    /\ asm_out[1] = [role |-> "system", content |-> C2_expected]
    /\ CountRole(asm_out, "system") = 1
C2_witness ==
  /\ asm_out # <<>>
  /\ Len(asm_hist) = 2
  /\ \A i \in 1..Len(asm_hist) : asm_hist[i].role # "system"
  /\ asm_body.ai_mode = Str(<<"alphaStudy">>)
  /\ asm_body.emotion = Absent

C4_step ==
  \A p \in Procs :
    /\ (pc[p] = "idle" /\ pc'[p] # "idle") =>
         /\ req'[p].chat_id.t = "str" /\ req'[p].chat_id.v # <<>>
         /\ req'[p].prompt.t = "str" /\ req'[p].prompt.v # <<>>
         /\ \A i \in 1..Len(req'[p].prompt.v) :
              (i = 1 \/ i = Len(req'[p].prompt.v)) => req'[p].prompt.v[i] # " "
    /\ ( /\ pc[p] = "idle" /\ pc' = pc /\ resp' # resp
         /\ resp'.prompt # None
         /\ \/ resp'.chat_id = None \/ resp'.chat_id.v = <<>>
            \/ resp'.prompt.v = <<>> ) =>
         /\ resp'.status = 400
         /\ resp'.key = "error"
         /\ messages' = messages
         /\ remote_called' = remote_called
         /\ ai_response_text' = ai_response_text
C5_step ==
  \A p \in Procs :
    /\ (pc[p] = "generate" /\ pc'[p] # "generate") =>
         /\ pc'[p] = "save"
         /\ remote_called'[p] => (OPENAI_KEY # None /\ OPENAI_KEY.v # <<>>)
         /\ ai_response_text'[p].t = "str"
         /\ ai_response_text'[p].v # <<>>
         /\ \/ ai_response_text'[p].v[1] \in
                 {"I understand: ", "Exam on: ", "(Alpha Study AI for "}
            \/ /\ remote_called'[p]
               /\ \E o \in RemoteOutcomes :
                    /\ o.kind = "ok"
                    /\ ai_response_text'[p].v = Strip(o.content)
         /\ messages' = messages
    /\ (pc[p] = "save" /\ pc'[p] # "save") =>
         /\ pc'[p] = "idle"
         /\ resp'.status = 200
         /\ resp'.key = "answer"
         /\ resp'.text # <<>>
         /\ resp'.text = ai_response_text[p].v
         /\ messages' = Append(messages,
              [chat_id |-> req[p].chat_id.v, role |-> "assistant",
               content |-> resp'.text])
    /\ (pc[p] = "assemble" /\ pc'[p] # "assemble") => pc'[p] = "generate"
\* C5: the generator has no failure path: the remote call is attempted only
\* with a credential; a request past validation gets a non-empty text, the
\* fallback text unless the remote call gave a non-empty one, then persists
\* it as the assistant message and returns it as the answer with status 200.
C5_GeneratorNeverFails == [][C5_step]_vars
C5_witness ==
  /\ OPENAI_KEY # None
  /\ resp.status = 200
  /\ resp.text[1] = "I understand: "
  /\ messages[Len(messages)].role = "assistant"
  /\ messages[Len(messages)].content = resp.text

\* the locals of the i-th request, and both texts being generated
GenReq(i) == ParseBody(gen_body[i])
GenBothDone == gen_out[1] # None /\ gen_out[2] # None
\* C6: without a credential, two answers for the same prompt and the same
\* mode, not the exam mode, differ when the emotions differ (each emotion has
\* its own suffix, no emotion has none).
C6_EmotionChangesFallback ==
  ( /\ OPENAI_KEY = None
    /\ GenBothDone
    /\ GenReq(1).prompt = GenReq(2).prompt
    /\ GenReq(1).ai_mode = GenReq(2).ai_mode
    /\ GenReq(1).ai_mode # Str(<<"alphaExam">>)
    /\ GenReq(1).board = GenReq(2).board
    /\ GenReq(1).grade = GenReq(2).grade
    /\ GenReq(1).emotion # GenReq(2).emotion ) =>
    gen_out[1] # gen_out[2]

C8_step ==
  /\ \A c \in UUIDs : Cardinality(SystemRows(c)') <= 1
  /\ Len(messages') >= Len(messages)
  /\ SubSeq(messages', 1, Len(messages)) = messages
  /\ Len(messages') <= Len(messages) + 1
  /\ (\E p \in Procs : IsApiStep(p)) =>
       \A i \in (Len(messages) + 1)..Len(messages') :
         messages'[i].role \in {"user", "assistant"}
  /\ \A n \in pending_chats \ pending_chats' :
       /\ Len(messages') = Len(messages) + 1
       /\ messages'[Len(messages')].role = "system"
       /\ messages'[Len(messages')].chat_id = n.chat_id
\* C8: a chat id never has more than one persisted system Message: new_chat
\* writes exactly one for the chat it creates, api_chat only appends user and
\* assistant Messages, and no step changes or removes a persisted Message.
C8_OneSystemMessagePerChat == [][C8_step]_vars
C8_witness ==
  /\ \E c \in UUIDs :
       /\ Cardinality(SystemRows(c)) = 1
       /\ \E i \in Rows(c) : messages[i].role = "assistant"
  /\ pending_chats = {}

\* C9: every Message api_chat persists for a user belongs to a Chat that
\* exists and is owned by that user.
C9_MessagesStayInOwnChats ==
  \A i \in 1..Len(messages) :
    messages[i].role \in {"user", "assistant"} =>
      \E c \in chats : c.id = messages[i].chat_id /\ c.user_id = author[i]

\* the entries of the assembled sequence that are the prompt of the request
PromptEntries(p) ==
  {i \in 1..Len(messages_for_api[p]) :
     messages_for_api[p][i] = [role |-> "user", content |-> req[p].prompt.v]}
\* C10 as stated: the assembled sequence holds the prompt as a user entry at
\* least twice, and its length is the number of Messages of the chat
\* persisted before the request plus 2, plus 1 when no system entry existed.
C10_original ==
  \A p \in Procs :
    pc[p] \in {"generate", "save"} =>
      /\ Cardinality(PromptEntries(p)) >= 2
      /\ Len(messages_for_api[p]) =
           before[p] + 2 + (IF HasSystem(prior[p]) THEN 0 ELSE 1)

\* what the amended C10 asks of one step
C10_step ==
  \A p \in Procs :
    (pc[p] = "assemble" /\ pc'[p] # "assemble") =>
      LET cid == req[p].chat_id.v
      IN  /\ Cardinality(PromptEntries(p)') >= 2
          /\ Cardinality(Rows(cid)) >= before[p] + 1
          /\ Len(messages_for_api'[p]) =
               Cardinality(Rows(cid)) + 1 + (IF SystemRows(cid) = {} THEN 1 ELSE 0)
\* C10 as amended: the user Message is committed before the history is
\* fetched, so the assembled sequence holds the prompt as a user entry at
\* least twice; its length is the number of Messages of the chat persisted
\* when the history is fetched (the request's own user Message among them,
\* so at least the number before the request plus 1) plus 1, plus 1 more
\* when none of them is a system entry.
C10_PromptTwiceAndLength == [][C10_step]_vars
C10_witness ==
  \E p \in Procs :
    /\ pc[p] = "generate"
    /\ Len(prior[p]) > before[p] + 1
    /\ HasSystem(prior[p])
====
